---- MODULE Spec2Model ----
(***************************************************************************)
(* Model of the archive walk of google-photos-backup (the archiving        *)
(* script, src/unnamed/part_000).  The script is one sequential async      *)
(* function driving one browser page; the browser, the photo library UI    *)
(* and the timing of its responses are the environment and are chosen      *)
(* nondeterministically at every await that talks to the page.             *)
(***************************************************************************)
EXTENDS Integers, Sequences, FiniteSets, TLC

(***************************************************************************)
(* Bounds of the model.                                                    *)
(***************************************************************************)
\* number of distinct photos of the library
NumItems == 2
\* archivePhoto invocations explored in one run (caps the three counters)
MaxProcessed == 3
\* largest number of visible info boxes the album check can observe
MaxBoxes == 2
\* longest run of /u/<digits>/ segments in a locator, and the largest account index
MaxSegs == 2
MaxAcct == 2

(***************************************************************************)
(* Program constants.                                                      *)
(***************************************************************************)
\* while (navigationAttempts < 5) / if (navigationAttempts >= 5)
MaxNavAttempts == 5
\* if (consecutiveRepeats >= 2)
RepeatLimit == 2

(***************************************************************************)
(* Locators.  A URL string is held as its parts: the host, the sequence    *)
(* of leading /u/<digits>/ account segments, the kind of path that         *)
(* follows and the photo key.                                              *)
(***************************************************************************)
PhotosHost == "photos.google.com"

Items == 1..NumItems

\* the account-index prefixes that occur: none, or /u/0/
Accts == {<<>>, <<0>>}

Url(h, a, p, i) == [host |-> h, acct |-> a, path |-> p, id |-> i]

\* https://photos.google.com/[u/N/]photo/AF1Q...
Photo(i, a) == Url(PhotosHost, a, "photo", i)

\* https://photos.google.com/ : the landing (grid) view
Home == Url(PhotosHost, <<>>, "", 0)

\* any address outside the library, e.g. the sign-in page
Foreign == Url("accounts.google.com", <<>>, "", 0)

\* the empty string, and the marker of a .lastdone file that does not exist
EmptyText == Url("", <<>>, "", 0)
MissingFile == Url("ENOENT", <<>>, "", 0)

\* the addresses the browser reports in a session whose photo addresses carry
\* the account segment a: its photos, the landing view, and a foreign address
Urls(a) == {Photo(i, a) : i \in Items} \cup {Home, Foreign}

\* the replacement made global: every account segment is removed
cleanAll(link) == [link EXCEPT !.acct = <<>>]

\* link.replace(/\/u\/\d+\//, '/') : the first account segment is removed
clean(link) ==
  IF link.acct = <<>> THEN link ELSE [link EXCEPT !.acct = Tail(link.acct)]

\* currentUrl.startsWith('https://photos.google.com')
StartsWithPhotos(url) == url.host = PhotosHost

\* includes('photos.google.com') && !includes('/photo/') && !includes('/AF1Q')
IsMainPage(url) == url.host = PhotosHost /\ url.path # "photo"

(***************************************************************************)
(* The page: its URL and whether its DOM holds the main-page elements the  *)
(* home-page probe looks for (only read when the URL is a main-page URL).  *)
(***************************************************************************)
Page(u, e) == [url |-> u, elems |-> e]

Pages(a) == {Page(u, u = Home) : u \in Urls(a)}

BlankPage == Page(Foreign, FALSE)

\* where page.goto(target) can end when it returns: at the target as the browser
\* reports it, or redirected to the landing view or out of the library
GotoResults(target, a) ==
  {Page(Home, TRUE), Page(Foreign, FALSE)}
  \cup (IF target.path = "photo" /\ target.host = PhotosHost
        THEN {Page(Photo(target.id, a), FALSE)}
        ELSE {})

\* isOnHomePage: false on any exception of the DOM probe
IsOnHomePage(p, probeThrows) ==
  IF IsMainPage(p.url)
  THEN (IF probeThrows THEN FALSE ELSE p.elems)
  ELSE FALSE

\* what `await isOnHomePage(page)` can return on page p
HomePageVerdicts(p) == {IsOnHomePage(p, t) : t \in BOOLEAN}

(***************************************************************************)
(* Checkpoint store.                                                       *)
(***************************************************************************)
\* getProgress without its test for the empty string
GetProgressAcceptsEmpty(file) == file # MissingFile

\* getProgress: throws when the file is missing or empty
GetProgressOk(file) == file # MissingFile /\ file # EmptyText

\* saveProgress without its prefix test
SaveProgressUnguarded(url, file) == url

\* saveProgress: writes page.url() as it is, if it has the library prefix
SaveProgress(url, file) == IF StartsWithPhotos(url) THEN url ELSE file

(***************************************************************************)
(* Item Processor.  What the page answers during one archivePhoto call is  *)
(* an observation: the outcome of the render wait, of the drawer probe,    *)
(* of the album check, and the keyboard call that raises, if any.  Fields  *)
(* that the call never reads are held at their default.                    *)
(***************************************************************************)
Obs(l, d, a, b, h, k) ==
  [load |-> l, drawer |-> d, album |-> a, boxes |-> b, hasAlbums |-> h, keyFail |-> k]

NoObs == Obs("none", "none", "none", 0, FALSE, "none")

Observations ==
  {Obs("timeout", "none", "none", 0, FALSE, "none"),
   Obs("ok", "throw", "none", 0, FALSE, "none"),
   Obs("ok", "hidden", "none", 0, FALSE, "KeyI")}
  \cup {Obs("ok", d, "timeout", 0, FALSE, "none") : d \in {"visible", "hidden"}}
  \cup {Obs("ok", d, "read", b, FALSE, "none") :
          d \in {"visible", "hidden"}, b \in (0..MaxBoxes) \ {1}}
  \cup {Obs("ok", d, "read", 1, TRUE, "none") : d \in {"visible", "hidden"}}
  \cup {Obs("ok", d, "read", 1, FALSE, k) :
          d \in {"visible", "hidden"}, k \in {"none", "ShiftDown", "KeyA", "ShiftUp"}}

\* waitForPageLoad with the timeout of waitForLoadState swallowed
WaitForPageLoadSwallows(o) == TRUE

\* waitForPageLoad: true unless waitForLoadState times out
WaitForPageLoad(o) == o.load = "ok"

\* showDrawer returning true from its catch
ShowDrawerSwallows(o) ==
  [ok |-> TRUE, keyI |-> IF o.drawer = "hidden" THEN 1 ELSE 0]

\* showDrawer: presses KeyI when the drawer is not visible; false on any exception.
\* keyI is the number of page.keyboard.press('KeyI') calls made.
ShowDrawer(o) ==
  IF o.drawer = "throw" THEN [ok |-> FALSE, keyI |-> 0]
  ELSE IF o.drawer = "hidden"
       THEN [ok |-> o.keyFail # "KeyI", keyI |-> 1]
       ELSE [ok |-> TRUE, keyI |-> 0]

\* archiveElement without the test visibleBoxes.length !== 1
ArchiveElementAnyBoxes(o) ==
  IF o.album = "timeout" THEN [archived |-> FALSE, keyA |-> 0, done |-> FALSE]
  ELSE IF o.hasAlbums THEN [archived |-> FALSE, keyA |-> 0, done |-> FALSE]
  ELSE IF o.keyFail = "ShiftDown" THEN [archived |-> FALSE, keyA |-> 0, done |-> FALSE]
  ELSE IF o.keyFail = "KeyA" THEN [archived |-> FALSE, keyA |-> 1, done |-> FALSE]
  ELSE IF o.keyFail = "ShiftUp" THEN [archived |-> FALSE, keyA |-> 1, done |-> TRUE]
  ELSE [archived |-> TRUE, keyA |-> 1, done |-> TRUE]

\* archiveElement without the test albumInfo.hasAlbums
ArchiveElementIgnoresAlbums(o) ==
  IF o.album = "timeout" THEN [archived |-> FALSE, keyA |-> 0, done |-> FALSE]
  ELSE IF o.boxes # 1 THEN [archived |-> FALSE, keyA |-> 0, done |-> FALSE]
  ELSE IF o.keyFail = "ShiftDown" THEN [archived |-> FALSE, keyA |-> 0, done |-> FALSE]
  ELSE IF o.keyFail = "KeyA" THEN [archived |-> FALSE, keyA |-> 1, done |-> FALSE]
  ELSE IF o.keyFail = "ShiftUp" THEN [archived |-> FALSE, keyA |-> 1, done |-> TRUE]
  ELSE [archived |-> TRUE, keyA |-> 1, done |-> TRUE]

\* archiveElement: the album check raced against 5 s, then Shift+A.
\* keyA is the number of page.keyboard.press('KeyA') calls made; done says
\* whether that call returned normally.
ArchiveElement(o) ==
  IF o.album = "timeout" THEN [archived |-> FALSE, keyA |-> 0, done |-> FALSE]
  ELSE IF o.boxes # 1 THEN [archived |-> FALSE, keyA |-> 0, done |-> FALSE]
  ELSE IF o.hasAlbums THEN [archived |-> FALSE, keyA |-> 0, done |-> FALSE]
  ELSE IF o.keyFail = "ShiftDown" THEN [archived |-> FALSE, keyA |-> 0, done |-> FALSE]
  ELSE IF o.keyFail = "KeyA" THEN [archived |-> FALSE, keyA |-> 1, done |-> FALSE]
  ELSE IF o.keyFail = "ShiftUp" THEN [archived |-> FALSE, keyA |-> 1, done |-> TRUE]
  ELSE [archived |-> TRUE, keyA |-> 1, done |-> TRUE]

\* archivePhoto with the test of `archived` inverted
ArchivePhotoInverted(o) ==
  IF ~WaitForPageLoad(o)
  THEN [result |-> "timeout", keyI |-> 0, keyA |-> 0, done |-> FALSE]
  ELSE IF ~ShowDrawer(o).ok
  THEN [result |-> "timeout", keyI |-> ShowDrawer(o).keyI, keyA |-> 0, done |-> FALSE]
  ELSE [result |-> IF ArchiveElement(o).archived THEN "skipped" ELSE "archived",
        keyI |-> ShowDrawer(o).keyI,
        keyA |-> ArchiveElement(o).keyA,
        done |-> ArchiveElement(o).done]

\* archivePhoto: 'archived' | 'skipped' | 'timeout', with the keyboard calls made
ArchivePhoto(o) ==
  IF ~WaitForPageLoad(o)
  THEN [result |-> "timeout", keyI |-> 0, keyA |-> 0, done |-> FALSE]
  ELSE IF ~ShowDrawer(o).ok
  THEN [result |-> "timeout", keyI |-> ShowDrawer(o).keyI, keyA |-> 0, done |-> FALSE]
  ELSE [result |-> IF ArchiveElement(o).archived THEN "archived" ELSE "skipped",
        keyI |-> ShowDrawer(o).keyI,
        keyA |-> ArchiveElement(o).keyA,
        done |-> ArchiveElement(o).done]

\* the counters with a timeout counted as a skipped item
CountTimeoutAsSkipped(c, r) ==
  [archived |-> c.archived + (IF r = "archived" THEN 1 ELSE 0),
   skipped |-> c.skipped + (IF r \in {"skipped", "timeout"} THEN 1 ELSE 0),
   timeout |-> c.timeout]

\* the counters after one outcome: [archived, skipped, timeout]
Count(c, r) ==
  [archived |-> c.archived + (IF r = "archived" THEN 1 ELSE 0),
   skipped |-> c.skipped + (IF r = "skipped" THEN 1 ELSE 0),
   timeout |-> c.timeout + (IF r = "timeout" THEN 1 ELSE 0)]

\* the checkpoint guard dropped: save after every outcome
ShouldSaveAlways(r) == TRUE

\* if (result !== 'archived') await saveProgress(page)
ShouldSave(r) == r # "archived"

(***************************************************************************)
(* State.                                                                  *)
(***************************************************************************)
VARIABLES
  acct,                \* the account segment of the photo addresses of this session
  pc,                  \* position in the main function
  lastdone,            \* content of the .lastdone file
  startLink,           \* const startLink
  latestPhoto,         \* const latestPhoto
  browser,             \* "none" | "open" | "closed"
  page,                \* the browser page: URL and DOM shape
  processedUrls,       \* const processedUrls = new Set()
  consecutiveRepeats,  \* let consecutiveRepeats
  counts,              \* archivedCount, skippedCount, timeoutCount
  shown,               \* the counts in the header of the console, as customLog last drew it
  currentUrl,          \* const currentUrl while the loop body uses it (initialUrl before the loop)
  result,              \* const result while the loop body uses it (firstResult before the loop)
  obs,                 \* what the page answered to the archivePhoto call just made
  keys,                \* the page.keyboard.press calls that archivePhoto call made
  iter,                \* what the advance or recovery of the running iteration did
  archivedItems,       \* photos on which a Shift+A press has completed
  advanced             \* an advance or a recovery navigation was attempted since the
                       \* last archivePhoto call

vars == <<acct, pc, lastdone, startLink, latestPhoto, browser, page, processedUrls,
          consecutiveRepeats, counts, shown, currentUrl, result, obs, keys, iter,
          archivedItems, advanced>>

\* the session and the run's constants once set, the locals of the loop body, the item log
setup == <<acct, startLink, latestPhoto, browser>>
locals == <<currentUrl, result>>
itemLog == <<obs, keys>>

\* ArrowLeft: page.keyboard.press('ArrowLeft') calls; goto: page.goto calls of the
\* recovery; home: what the recovery's own home-page check found; land: what the
\* advance landed on; threw: the catch of the navigation ran; exhausted: the retry
\* loop of the archived path ended with navigationAttempts >= 5; detected: the
\* home-page check at the top of the iteration returned true; timedOut: a
\* waitForURL of the advance timed out
Fresh ==
  [ArrowLeft |-> 0, goto |-> 0, home |-> "none", land |-> "none", threw |-> FALSE,
   exhausted |-> FALSE, detected |-> FALSE, timedOut |-> FALSE]

NoKeys == [KeyI |-> 0, KeyA |-> 0]

\* the console before the first customLog call
NoScreen == [archived |-> -1, skipped |-> -1, timeout |-> -1]

\* customLog without its header line
CustomLogNoHeader(c) == NoScreen

\* customLog: clears the console and draws the header with the three counters
CustomLog(c) == c

Total == counts.archived + counts.skipped + counts.timeout

\* the photos a Shift+A press on page p archives
ArchivedBy(p, r) == IF r.done /\ p.url.path = "photo" THEN {p.url.id} ELSE {}

\* where the page can be once archivePhoto returns: the archive action and a
\* load that does not complete may leave it anywhere, otherwise it stays put
PageAfterProcessing(p, o, a) ==
  IF ArchivePhoto(o).keyA > 0 \/ ~WaitForPageLoad(o) THEN Pages(a) ELSE {p}

\* the .lastdone files a run can start from
InitialFiles == {Photo(1, <<>>), MissingFile, EmptyText}

\* what document.activeElement.toString() returns on the landing view
LatestCandidates == {Photo(NumItems, <<>>)}

\* processedUrls.add dropped: the set is left as it was
ProcessedUrlsAddSkipped(visited, url) == visited

\* processedUrls.add(clean(url))
ProcessedUrlsAdd(visited, url) == visited \cup {clean(url)}

\* nothing has run yet
Idle ==
  /\ pc = "start"
  /\ startLink = EmptyText
  /\ latestPhoto = EmptyText
  /\ browser = "none"
  /\ page = BlankPage
  /\ processedUrls = {}
  /\ consecutiveRepeats = 0
  /\ counts = [archived |-> 0, skipped |-> 0, timeout |-> 0]
  /\ shown = NoScreen
  /\ currentUrl = EmptyText
  /\ result = "none"
  /\ obs = NoObs
  /\ keys = NoKeys
  /\ iter = Fresh
  /\ archivedItems = {}
  /\ advanced = FALSE

Init ==
  /\ acct \in Accts
  /\ lastdone \in InitialFiles
  /\ Idle

(***************************************************************************)
(* Startup: lines 117-146.                                                 *)
(***************************************************************************)
\* getProgress throws: the process ends before a browser is launched
StartupAbort ==
  /\ pc = "start"
  /\ ~GetProgressOk(lastdone)
  /\ pc' = "aborted"
  /\ UNCHANGED <<lastdone, setup, page, processedUrls, consecutiveRepeats, counts, shown,
                 locals, itemLog, iter, archivedItems, advanced>>

\* launch, open the landing view, detect the latest photo
Startup ==
  /\ pc = "start"
  /\ GetProgressOk(lastdone)
  /\ startLink' = lastdone
  /\ browser' = "open"
  /\ \E l \in LatestCandidates : latestPhoto' = l
  /\ page' = Page(Home, TRUE)
  /\ pc' = "opened"
  /\ shown' = CustomLog(counts)
  /\ UNCHANGED <<acct, lastdone, processedUrls, consecutiveRepeats, counts, locals,
                 itemLog, iter, archivedItems, advanced>>

\* page.goto or getLatestPhoto raises: nothing catches it, close() is not reached
StartupCrash ==
  /\ pc = "start"
  /\ GetProgressOk(lastdone)
  /\ startLink' = lastdone
  /\ browser' = "open"
  /\ pc' = "crashed"
  /\ shown' = CustomLog(counts)
  /\ UNCHANGED <<acct, lastdone, latestPhoto, page, processedUrls, consecutiveRepeats,
                 counts, locals, itemLog, iter, archivedItems, advanced>>

(***************************************************************************)
(* The first photo: lines 149-172.                                         *)
(***************************************************************************)
\* page.goto(clean(startLink)); processedUrls.add(clean(initialUrl))
GotoStart ==
  /\ pc = "opened"
  /\ \E p \in GotoResults(clean(startLink), acct) : page' = p
  /\ currentUrl' = page'.url
  /\ processedUrls' = ProcessedUrlsAdd(processedUrls, page'.url)
  /\ pc' = "first"
  /\ UNCHANGED <<lastdone, setup, consecutiveRepeats, counts, shown, result,
                 itemLog, iter,
                 archivedItems, advanced>>

\* page.goto(clean(startLink)) raises
GotoStartCrash ==
  /\ pc = "opened"
  /\ pc' = "crashed"
  /\ UNCHANGED <<lastdone, setup, page, processedUrls, consecutiveRepeats, counts, shown,
                 locals, itemLog, iter, archivedItems, advanced>>

\* firstResult = await archivePhoto(page, true), then the counters
ProcessFirst ==
  /\ pc = "first"
  /\ \E o \in Observations :
       /\ obs' = o
       /\ result' = ArchivePhoto(o).result
       /\ counts' = Count(counts, ArchivePhoto(o).result)
       /\ shown' = CustomLog(Count(counts, ArchivePhoto(o).result))
       /\ keys' = [KeyI |-> ArchivePhoto(o).keyI, KeyA |-> ArchivePhoto(o).keyA]
       /\ archivedItems' = archivedItems \cup ArchivedBy(page, ArchivePhoto(o))
       /\ \E p \in PageAfterProcessing(page, o, acct) : page' = p
  /\ pc' = "first_save"
  /\ advanced' = FALSE
  /\ UNCHANGED <<lastdone, setup, processedUrls, consecutiveRepeats, currentUrl,
                 iter>>

\* if (firstResult !== 'archived') await saveProgress(page)
SaveFirst ==
  /\ pc = "first_save"
  /\ lastdone' = IF ShouldSave(result) THEN SaveProgress(page.url, lastdone) ELSE lastdone
  /\ obs' = NoObs
  /\ keys' = NoKeys
  /\ currentUrl' = EmptyText
  /\ result' = "none"
  /\ pc' = "loop"
  /\ shown' = IF ShouldSave(result) /\ ~StartsWithPhotos(page.url) THEN CustomLog(counts) ELSE shown
  /\ UNCHANGED <<setup, page, processedUrls, consecutiveRepeats, counts,
                 iter, archivedItems, advanced>>

(***************************************************************************)
(* The main loop: lines 174-320.                                           *)
(***************************************************************************)
\* returnToLastPosition: what it returns, where it leaves the page, the goto
\* calls it made and what its own home-page check found
ReturnToLastPosition(p, file, a) ==
  IF ~GetProgressOk(file)
  THEN {[recovered |-> FALSE, page |-> p, goto |-> 0, home |-> "none"]}
  ELSE {[recovered |-> FALSE, page |-> q, goto |-> 1, home |-> "none"] :
          q \in GotoResults(clean(file), a) \cup {p}}
       \cup {[recovered |-> ~IsOnHomePage(q, t), page |-> q, goto |-> 1,
              home |-> IF IsOnHomePage(q, t) THEN "home" ELSE "detail"] :
               q \in GotoResults(clean(file), a), t \in BOOLEAN}

\* the break after a failed recovery dropped: the loop goes on
AfterRecoveryGoesOn(recovered) == "iter_end"

\* if (!recovered) break; else continue
AfterRecovery(recovered) == IF recovered THEN "iter_end" ELSE "closing"

\* if (await isOnHomePage(page)) { recovered = await returnToLastPosition(page) ... }
HomePageRecovery ==
  /\ pc = "loop"
  /\ TRUE \in HomePageVerdicts(page)
  /\ \E r \in ReturnToLastPosition(page, lastdone, acct) :
       /\ page' = r.page
       /\ iter' = [Fresh EXCEPT !.goto = r.goto, !.home = r.home, !.detected = TRUE]
       /\ pc' = AfterRecovery(r.recovered)
  /\ shown' = CustomLog(counts)
  /\ advanced' = TRUE
  /\ UNCHANGED <<lastdone, setup, processedUrls, consecutiveRepeats, counts, locals,
                 itemLog, archivedItems>>

\* the boundary test without clean(): the raw strings compared
AtBoundaryRaw(url, latest) == url = latest

\* clean(currentUrl) === clean(latestPhoto)
AtBoundary(url, latest) == clean(url) = clean(latest)

\* if (clean(currentUrl) === clean(latestPhoto)) break
BoundaryExit ==
  /\ pc = "loop"
  /\ FALSE \in HomePageVerdicts(page)
  /\ AtBoundary(page.url, latestPhoto)
  /\ pc' = "closing"
  /\ shown' = CustomLog(counts)
  /\ UNCHANGED <<lastdone, setup, page, processedUrls, consecutiveRepeats, counts,
                 locals, itemLog, iter, archivedItems, advanced>>

\* result = await archivePhoto(page), the counters, processedUrls.add(cleanCurrentUrl)
ProcessItem ==
  /\ pc = "loop"
  /\ FALSE \in HomePageVerdicts(page)
  /\ ~AtBoundary(page.url, latestPhoto)
  /\ Total < MaxProcessed
  /\ currentUrl' = page.url
  /\ \E o \in Observations :
       /\ obs' = o
       /\ result' = ArchivePhoto(o).result
       /\ counts' = Count(counts, ArchivePhoto(o).result)
       /\ shown' = CustomLog(Count(counts, ArchivePhoto(o).result))
       /\ keys' = [KeyI |-> ArchivePhoto(o).keyI, KeyA |-> ArchivePhoto(o).keyA]
       /\ archivedItems' = archivedItems \cup ArchivedBy(page, ArchivePhoto(o))
       /\ \E p \in PageAfterProcessing(page, o, acct) : page' = p
  /\ processedUrls' = ProcessedUrlsAdd(processedUrls, page.url)
  /\ pc' = "save"
  /\ advanced' = FALSE
  /\ UNCHANGED <<lastdone, setup, consecutiveRepeats,
                 iter>>

\* if (result !== 'archived') await saveProgress(page)
SaveStep ==
  /\ pc = "save"
  /\ lastdone' = IF ShouldSave(result) THEN SaveProgress(page.url, lastdone) ELSE lastdone
  /\ obs' = NoObs
  /\ keys' = NoKeys
  /\ pc' = IF result = "archived" THEN "nav_arch" ELSE "nav_normal"
  /\ shown' = IF ShouldSave(result) /\ ~StartsWithPhotos(page.url) THEN CustomLog(counts) ELSE shown
  /\ UNCHANGED <<setup, page, processedUrls, consecutiveRepeats, counts, locals,
                 iter, archivedItems, advanced>>

\* the waitForURL predicate: host is the library and the cleaned URL differs
WaitForURL(url, from) == url.host = PhotosHost /\ clean(url) # from

\* one outcome of an advance: where the page is, where the program goes on, the
\* ArrowLeft presses made, the repeat counter, the attempts made, what the
\* advance landed on, whether the catch of the navigation ran, whether a
\* waitForURL of the advance timed out
Outcome(q, c, l, r, n, d, t, w) ==
  [page |-> q, pc |-> c, left |-> l, repeats |-> r, exhausted |-> n >= MaxNavAttempts,
   land |-> d, threw |-> t, timedOut |-> w]

\* the catch of the navigation without its key press: the error is only logged
KeyboardFallbackSilent(q, l, r, n, d, w, a) ==
  {Outcome(q, "iter_end", l, r, n, d, TRUE, w)}

\* catch (error) { await page.keyboard.press('ArrowLeft') }: the press moves the
\* page somewhere, or raises and nothing catches it.  l presses were made before.
KeyboardFallback(q, l, r, n, d, w, a) ==
  {Outcome(q2, "iter_end", l + 1, r, n, d, TRUE, w) : q2 \in Pages(a)}
  \cup {Outcome(q, "crashed", l + 1, r, n, d, TRUE, w)}

\* the repeat test one too late: consecutiveRepeats > 2
RepeatLimitLate(reps) == reps > RepeatLimit

\* if (consecutiveRepeats >= 2)
RepeatLimitReached(reps) == reps >= RepeatLimit

\* lines 289-312 with the catch of 315-319: the single advance of the other path
NavNormalOutcomes(p, cur, visited, reps, a) ==
  KeyboardFallback(p, 0, reps, 0, "none", FALSE, a)
  \cup UNION {
    IF ~WaitForURL(q.url, clean(cur))
    THEN KeyboardFallback(q, 0, reps, 0, "none", TRUE, a)
    ELSE IF clean(q.url) \in visited
    THEN (IF RepeatLimitReached(reps + 1)
          THEN {Outcome(q2, "iter_end", 1, 0, 0, "visited", FALSE, FALSE) : q2 \in Pages(a)}
               \cup KeyboardFallback(q, 1, reps + 1, 0, "visited", FALSE, a)
          ELSE {Outcome(q, "iter_end", 0, reps + 1, 0, "visited", FALSE, FALSE)})
    ELSE {Outcome(q, "iter_end", 0, 0, 0, "new", FALSE, FALSE)} : q \in Pages(a)}

NavNormal ==
  /\ pc = "nav_normal"
  /\ \E out \in NavNormalOutcomes(page, currentUrl, processedUrls, consecutiveRepeats,
                                acct) :
       /\ page' = out.page
       /\ pc' = out.pc
       /\ consecutiveRepeats' = out.repeats
       /\ iter' = [iter EXCEPT !.ArrowLeft = out.left, !.land = out.land,
                               !.threw = out.threw, !.timedOut = out.timedOut]
  /\ advanced' = TRUE
  /\ currentUrl' = EmptyText
  /\ result' = "none"
  /\ shown' \in {shown, CustomLog(counts)}
  /\ UNCHANGED <<lastdone, setup, processedUrls, counts, itemLog, archivedItems>>

\* if (navigationAttempts >= 5)
AttemptsExhausted(n) == n >= MaxNavAttempts

\* lines 281-285: after the retry loop, with n attempts made
AfterRetryLoop(q, r, n, d, w, a) ==
  IF AttemptsExhausted(n)
  THEN {Outcome(q2, "iter_end", 1, r, n, d, FALSE, w) : q2 \in Pages(a)}
       \cup KeyboardFallback(q, 1, r, n, d, w, a)
  ELSE {Outcome(q, "iter_end", 0, r, n, d, FALSE, w)}

\* one position of the retry loop: the page, currentNavigationUrl, what the
\* attempt before landed on, and whether a URL wait has timed out so far
Conf(q, u, d, w) == [page |-> q, navUrl |-> u, land |-> d, timedOut |-> w]

\* lines 242-278, one click-and-wait attempt from position c, the n-th: the
\* positions from which the retry loop goes on (the URL wait timed out, or the
\* page is still at a processed photo) ...
AttemptContinues(c, visited, a) ==
  {Conf(q, c.navUrl, "none", TRUE) :
     q \in {x \in Pages(a) : ~WaitForURL(x.url, clean(c.navUrl))}}
  \cup {Conf(q, q.url, "visited", c.timedOut) :
          q \in {x \in Pages(a) : /\ WaitForURL(x.url, clean(c.navUrl))
                               /\ FALSE \in HomePageVerdicts(x)
                               /\ clean(x.url) \in visited}}

\* ... and the outcomes in which it leaves the loop: the click raises, the page
\* is on the home page, or the photo is a new one (consecutiveRepeats = 0)
AttemptLeaves(c, n, visited, reps, a) ==
  KeyboardFallback(c.page, 0, reps, n, "none", c.timedOut, a)
  \cup UNION {AfterRetryLoop(q, reps, n, "home", c.timedOut, a) :
                q \in {x \in Pages(a) : /\ WaitForURL(x.url, clean(c.navUrl))
                                     /\ TRUE \in HomePageVerdicts(x)}}
  \cup UNION {AfterRetryLoop(q, 0, n, "new", c.timedOut, a) :
                q \in {x \in Pages(a) : /\ WaitForURL(x.url, clean(c.navUrl))
                                     /\ FALSE \in HomePageVerdicts(x)
                                     /\ clean(x.url) \notin visited}}

\* lines 241-285 with the catch of 315-319: the retry loop from the positions
\* it can be in after `attempts` attempts
RECURSIVE RetryLoop(_, _, _, _, _)
RetryLoop(confs, attempts, visited, reps, a) ==
  IF confs = {} THEN {}
  ELSE IF ~(attempts < MaxNavAttempts)
  THEN UNION {AfterRetryLoop(c.page, reps, attempts, c.land, c.timedOut, a) : c \in confs}
  ELSE UNION {AttemptLeaves(c, attempts + 1, visited, reps, a) : c \in confs}
       \cup RetryLoop(UNION {AttemptContinues(c, visited, a) : c \in confs},
                      attempts + 1, visited, reps, a)

\* let navigationAttempts = 0; let currentNavigationUrl = await page.url()
NavArchivedOutcomes(p, visited, reps, a) ==
  RetryLoop({Conf(p, p.url, "none", FALSE)}, 0, visited, reps, a)

\* the cleaned addresses, and the pages of either kind of session
CleanUrls == {clean(u) : u \in UNION {Urls(a) : a \in Accts}}
AllPages == UNION {Pages(a) : a \in Accts}

\* the retry loop reads the page, the Visited Set and the repeat counter only:
\* its outcomes, tabulated (merged with the empty function, which makes the
\* table an explicit one that is computed once)
ArchivedAdvance ==
  [a \in Accts, p \in AllPages, visited \in SUBSET CleanUrls, reps \in 0..MaxProcessed |->
     NavArchivedOutcomes(p, visited, reps, a)] @@ <<>>

\* lines 230-285: the advance after an archived photo
NavArchived ==
  /\ pc = "nav_arch"
  /\ \E out \in ArchivedAdvance[acct, page, processedUrls, consecutiveRepeats] :
       /\ page' = out.page
       /\ pc' = out.pc
       /\ consecutiveRepeats' = out.repeats
       /\ iter' = [iter EXCEPT !.ArrowLeft = out.left, !.land = out.land,
                               !.threw = out.threw, !.exhausted = out.exhausted,
                               !.timedOut = out.timedOut]
  /\ advanced' = TRUE
  /\ currentUrl' = EmptyText
  /\ result' = "none"
  /\ shown' \in {shown, CustomLog(counts)}
  /\ UNCHANGED <<lastdone, setup, processedUrls, counts, itemLog, archivedItems>>

\* the end of the loop body (or continue): the while condition is taken again
LoopBack ==
  /\ pc = "iter_end"
  /\ iter' = Fresh
  /\ pc' = "loop"
  /\ UNCHANGED <<lastdone, setup, page, processedUrls, consecutiveRepeats, counts, shown,
                 locals, itemLog, archivedItems, advanced>>

\* await browser.close()
CloseBrowser ==
  /\ pc = "closing"
  /\ browser' = "closed"
  /\ pc' = "done"
  /\ UNCHANGED <<acct, lastdone, startLink, latestPhoto, page, processedUrls,
                 consecutiveRepeats, counts, shown, locals, itemLog, iter, archivedItems, advanced>>

Next ==
  \/ StartupAbort
  \/ Startup
  \/ StartupCrash
  \/ GotoStart
  \/ GotoStartCrash
  \/ ProcessFirst
  \/ SaveFirst
  \/ HomePageRecovery
  \/ BoundaryExit
  \/ ProcessItem
  \/ SaveStep
  \/ NavNormal
  \/ NavArchived
  \/ LoopBack
  \/ CloseBrowser

Spec == Init /\ [][Next]_vars

(***************************************************************************)
(* The same program in front of a well-behaved UI: the page moves only     *)
(* when `previous` is clicked, the click and the URL wait that follows it  *)
(* succeed, and the click opens the adjacent photo, towards the latest     *)
(* one.  What archivePhoto finds on a page is left open.                   *)
(***************************************************************************)
\* the page a click on `previous` opens from photo page p
NextPhotoPage(p) == Page(Photo(p.url.id + 1, p.url.acct), FALSE)

\* a readable .lastdone
CalmInit == Init /\ GetProgressOk(lastdone)

\* page.goto(clean(startLink)) opens the start photo
CalmGotoStart == GotoStart /\ page'.url = Photo(startLink.id, acct)

\* archivePhoto on a page that stays where it is
CalmProcessFirst == ProcessFirst /\ page' = page

CalmProcessItem == ProcessItem /\ page' = page

\* the click opens the adjacent photo, which the walk has not seen
CalmNavNormal ==
  /\ NavNormal
  /\ page.url.id < NumItems
  /\ page' = NextPhotoPage(page)
  /\ iter'.land = "new"
  /\ pc' = "iter_end"

\* the first click-and-wait attempt opens the adjacent photo
CalmNavArchived ==
  /\ NavArchived
  /\ page.url.id < NumItems
  /\ page' = NextPhotoPage(page)
  /\ iter'.land = "new"
  /\ ~iter'.exhausted
  /\ pc' = "iter_end"

CalmNext ==
  \/ Startup
  \/ CalmGotoStart
  \/ CalmProcessFirst
  \/ SaveFirst
  \/ BoundaryExit
  \/ CalmProcessItem
  \/ SaveStep
  \/ CalmNavNormal
  \/ CalmNavArchived
  \/ LoopBack
  \/ CloseBrowser

\* the program runs on: each of its awaits returns
CalmSpec == CalmInit /\ [][CalmNext]_vars /\ WF_vars(CalmNext)

(***************************************************************************)
(* The same walk in front of a page that may stop answering.  The calls    *)
(* page.evaluate of showDrawer (line 338) and of the injected click (lines *)
(* 246 and 289) are awaited with no timeout and no race: when the page     *)
(* never settles them, main stays at that await.                           *)
(***************************************************************************)
\* showDrawer: `await page.evaluate(...)` of the drawer probe never settles
DrawerProbeNeverReturns ==
  /\ \/ pc = "first"
     \/ /\ pc = "loop"
        /\ FALSE \in HomePageVerdicts(page)
        /\ ~AtBoundary(page.url, latestPhoto)
        /\ Total < MaxProcessed
  /\ pc' = "stalled"
  /\ UNCHANGED <<lastdone, setup, page, processedUrls, consecutiveRepeats, counts, shown,
                 locals, itemLog, iter, archivedItems, advanced>>

\* the advance: `await page.evaluate(... .click())` never settles
ClickNeverReturns ==
  /\ pc \in {"nav_normal", "nav_arch"}
  /\ pc' = "stalled"
  /\ UNCHANGED <<lastdone, setup, page, processedUrls, consecutiveRepeats, counts, shown,
                 locals, itemLog, iter, archivedItems, advanced>>

StallNext ==
  \/ CalmNext
  \/ DrawerProbeNeverReturns
  \/ ClickNeverReturns

\* every await that can return does return
StallSpec == CalmInit /\ [][StallNext]_vars /\ WF_vars(StallNext)

(***************************************************************************)
(* clean() on its own: the locators a .lastdone file can hold, with any    *)
(* run of account segments, cleaned once and cleaned again.                *)
(***************************************************************************)
AcctSeqs == UNION {[1..n -> 0..MaxAcct] : n \in 0..MaxSegs}

Locators ==
  {Url(PhotosHost, a, "photo", i) : a \in AcctSeqs, i \in Items}
  \cup {Url(PhotosHost, a, "", 0) : a \in AcctSeqs}

LocatorInit ==
  /\ acct = <<>>
  /\ lastdone \in Locators
  /\ Idle

\* startLink = await getProgress() ... clean(startLink)
CleanStartLink ==
  /\ pc = "start"
  /\ startLink' = lastdone
  /\ currentUrl' = clean(lastdone)
  /\ pc' = "cleaned"
  /\ UNCHANGED <<acct, lastdone, latestPhoto, browser, page, processedUrls,
                 consecutiveRepeats, counts, shown, result, itemLog, iter, archivedItems, advanced>>

\* clean() applied to a locator that clean() returned
CleanAgain ==
  /\ pc = "cleaned"
  /\ currentUrl' = clean(currentUrl)
  /\ pc' = "recleaned"
  /\ UNCHANGED <<lastdone, setup, page, processedUrls, consecutiveRepeats, counts, shown,
                 result, itemLog, iter, archivedItems, advanced>>

LocatorNext == CleanStartLink \/ CleanAgain

LocatorSpec == LocatorInit /\ [][LocatorNext]_vars

(***************************************************************************)
(* Properties.                                                             *)
(***************************************************************************)
\* the states in which archivePhoto has returned and the checkpoint step is next
AtCheckpointStep == pc \in {"first_save", "save"}

\* the steps that run archivePhoto
ProcessingStep == pc \in {"first", "loop"} /\ pc' \in {"first_save", "save"}

\* the album check read the info boxes of an item whose render wait and drawer
\* probe succeeded
AlbumCheckRead == AtCheckpointStep /\ obs.album = "read"

(* C1: an item whose outcome is `archived` leaves the checkpoint as it was:    *)
(* neither the archivePhoto step nor the checkpoint step that follows it       *)
(* changes .lastdone, for the first item and for every item of the loop.       *)
C1_ArchivedKeepsCheckpoint ==
  [][/\ (ProcessingStep /\ result' = "archived" => lastdone' = lastdone)
     /\ (AtCheckpointStep /\ result = "archived" => lastdone' = lastdone)]_vars

\* an archived item has passed its checkpoint step on a page whose URL would
\* have been written
C1_Witness ==
  /\ pc = "nav_arch"
  /\ result = "archived"
  /\ StartsWithPhotos(page.url)
  /\ page.url # lastdone

(* C2 as stated: after the checkpoint step of an item whose outcome is         *)
(* `skipped` or `timeout`, the checkpoint is the normalized URL that the       *)
(* iteration captured before processing.                                       *)
C2_CheckpointIsNormalizedItem ==
  [][AtCheckpointStep /\ result \in {"skipped", "timeout"}
       => lastdone' = clean(currentUrl)]_vars

(* C2 amended: after the checkpoint step of an item whose outcome is           *)
(* `skipped` or `timeout`, the checkpoint is the URL the page reports at that  *)
(* step, as it is (not normalized), if that URL starts with the library        *)
(* prefix; otherwise the checkpoint is unchanged.                              *)
C2_CheckpointIsPageUrl ==
  [][AtCheckpointStep /\ result \in {"skipped", "timeout"}
       => lastdone' = IF page.url.host = PhotosHost THEN page.url ELSE lastdone]_vars

\* a skipped item of the loop whose checkpoint is the raw page URL, which
\* differs from the normalized URL of the item
C2_Witness ==
  /\ pc = "nav_normal"
  /\ result = "skipped"
  /\ lastdone = page.url
  /\ page.url = currentUrl
  /\ lastdone # clean(currentUrl)

(* C3 as stated: when the render wait exceeds its bound the outcome is         *)
(* `timeout`, the checkpoint step that follows writes nothing, and the         *)
(* Visited Set holds the normalized pre-advance URL before the advance.        *)
C3_RenderTimeoutWritesNothing ==
  [][AtCheckpointStep /\ obs.load = "timeout"
       => /\ result = "timeout"
          /\ lastdone' = lastdone
          /\ clean(currentUrl) \in processedUrls]_vars

(* C3 amended: when the render wait exceeds its bound the outcome is           *)
(* `timeout`, the checkpoint step that follows writes the page's URL if it     *)
(* starts with the library prefix (and nothing otherwise), and the Visited     *)
(* Set holds the normalized pre-advance URL before the advance.                *)
C3_RenderTimeoutIsCheckpointed ==
  [][AtCheckpointStep /\ obs.load = "timeout"
       => /\ result = "timeout"
          /\ lastdone' = IF page.url.host = PhotosHost THEN page.url ELSE lastdone
          /\ clean(currentUrl) \in processedUrls
          /\ pc' \in {"loop", "nav_normal"}]_vars

\* the render wait of an item of the loop has timed out, on a page whose URL
\* the checkpoint step will write
C3_Witness ==
  /\ pc = "save"
  /\ obs.load = "timeout"
  /\ result = "timeout"
  /\ clean(currentUrl) \in processedUrls
  /\ page.url.host = PhotosHost
  /\ page.url # lastdone

(* C4: in every reachable state the checkpoint does not refer to a photo on    *)
(* which the archive shortcut has been pressed during the run.                 *)
C4_CheckpointNotArchived ==
  ~(lastdone.path = "photo" /\ lastdone.id \in archivedItems)

(* C5: when the album check sees zero or more than one visible info box, the   *)
(* archive shortcut is not pressed and the outcome is `skipped`.               *)
C5_AmbiguousBoxesSkipped ==
  AlbumCheckRead /\ obs.boxes # 1 => keys.KeyA = 0 /\ result = "skipped"

\* an item of the loop with several visible info boxes has been processed
C5_Witness ==
  /\ pc = "save"
  /\ obs.album = "read"
  /\ obs.boxes > 1
  /\ result = "skipped"

(* C6: when the single visible info box shows the album marker, the archive    *)
(* shortcut is not pressed and the outcome is `skipped`, on every processing   *)
(* of the item: the first item, an item of the loop, an item seen before.      *)
C6_AlbumItemSkipped ==
  AlbumCheckRead /\ obs.boxes = 1 /\ obs.hasAlbums
    => keys.KeyA = 0 /\ result = "skipped"

\* the start item is processed again in the loop and shows the marker
C6_Witness ==
  /\ pc = "save"
  /\ obs.boxes = 1
  /\ obs.hasAlbums
  /\ result = "skipped"
  /\ Total >= 2
  /\ clean(currentUrl) = clean(startLink)

C8_FailuresAreTimeout ==
  AtCheckpointStep
  /\ (\/ obs.load = "timeout"
      \/ obs.drawer = "throw"
      \/ obs.keyFail = "KeyI"
      \/ obs.album = "timeout")
    => result = "timeout"

(* C8 amended: a timeout or exception of the render wait or of the drawer      *)
(* check or toggle makes the outcome `timeout`; a timeout or exception of the  *)
(* album check (its 5 s timeout included) makes the outcome `skipped`, and     *)
(* the archive key is not pressed.                                             *)
C8_FailuresAreTimeoutOrSkipped ==
  /\ (AtCheckpointStep
      /\ (obs.load = "timeout" \/ obs.drawer = "throw" \/ obs.keyFail = "KeyI")
        => result = "timeout" /\ keys.KeyA = 0)
  /\ (AtCheckpointStep /\ obs.album = "timeout"
        => result = "skipped" /\ keys.KeyA = 0)

\* the album check of an item of the loop has timed out
C8_Witness ==
  /\ pc = "save"
  /\ obs.album = "timeout"
  /\ result = "skipped"

\* the advance of the non-archived path
NormalAdvance == pc = "nav_normal"

(* C9 as stated: on the non-archived path, a landing on a visited URL for the  *)
(* second consecutive time (the repeat counter is 1) gives exactly one         *)
(* ArrowLeft press in the iteration and the counter 0; a landing on a new URL  *)
(* gives the counter 0 and no press; a first repeat gives the counter 1 and    *)
(* no press.                                                                   *)
C9_SecondRepeatOnePress ==
  [][NormalAdvance =>
       /\ (iter'.land = "visited" /\ consecutiveRepeats = 1
             => iter'.ArrowLeft = 1 /\ consecutiveRepeats' = 0)
       /\ (iter'.land = "new" => iter'.ArrowLeft = 0 /\ consecutiveRepeats' = 0)
       /\ (iter'.land = "visited" /\ consecutiveRepeats = 0
             => iter'.ArrowLeft = 0 /\ consecutiveRepeats' = 1)]_vars

(* C9 amended: on the non-archived path, a landing on a visited URL while the  *)
(* repeat counter is 1 or more makes the controller press ArrowLeft; if that   *)
(* press returns, it is the only press of the iteration and the counter is 0   *)
(* afterwards; if it raises, the catch presses ArrowLeft a second time and     *)
(* the counter keeps its incremented value.  A landing on a new URL gives the  *)
(* counter 0 and no press; a first repeat gives the counter 1 and no press.    *)
C9_SecondRepeatPressUnlessRaises ==
  [][NormalAdvance =>
       /\ (iter'.land = "visited" /\ consecutiveRepeats >= 1 /\ ~iter'.threw
             => iter'.ArrowLeft = 1 /\ consecutiveRepeats' = 0)
       /\ (iter'.land = "visited" /\ consecutiveRepeats >= 1 /\ iter'.threw
             => iter'.ArrowLeft = 2 /\ consecutiveRepeats' = consecutiveRepeats + 1)
       /\ (iter'.land = "new" => iter'.ArrowLeft = 0 /\ consecutiveRepeats' = 0)
       /\ (iter'.land = "visited" /\ consecutiveRepeats = 0
             => iter'.ArrowLeft = 0 /\ consecutiveRepeats' = 1 /\ ~iter'.threw)]_vars

\* a second consecutive repeat has been answered by one press
C9_Witness ==
  /\ pc = "iter_end"
  /\ ~iter.exhausted
  /\ iter.land = "visited"
  /\ iter.ArrowLeft = 1
  /\ ~iter.threw
  /\ consecutiveRepeats = 0

\* the loop terminates: only browser.close() is left
LoopLeft == pc' = "closing"

\* nothing was processed and no advance was made in the step
NothingProcessed ==
  /\ UNCHANGED <<lastdone, processedUrls, consecutiveRepeats, counts, archivedItems,
                 itemLog>>
  /\ iter'.ArrowLeft = 0
  /\ iter'.land = "none"

\* whether the page is on the landing view after the recovery navigation: the
\* verdict of the recovery's own check, or the page itself if no check was made
StillOnLanding ==
  IF iter'.home = "none" THEN IsOnHomePage(page', FALSE) ELSE iter'.home = "home"

(* C10 as stated: an iteration that detects the landing view performs exactly  *)
(* one recovery navigation; if the page is still on the landing view after     *)
(* it, the loop terminates, and if it is not, the loop goes on with a fresh    *)
(* iteration; nothing is processed and no advance is made in that iteration.   *)
C10_OneRecoveryThenVerdict ==
  [][pc = "loop" /\ iter'.detected =>
       /\ iter'.goto = 1
       /\ NothingProcessed
       /\ (StillOnLanding => LoopLeft)
       /\ (~StillOnLanding => pc' = "iter_end")]_vars

(* C10 amended: an iteration that detects the landing view performs exactly    *)
(* one recovery navigation; if that navigation raises, or the page is still    *)
(* on the landing view after it, the loop terminates without another           *)
(* recovery attempt; otherwise the loop goes on with a fresh iteration.        *)
(* Nothing is processed and no advance is made in that iteration.              *)
C10_OneRecoveryThenVerdictOrRaise ==
  [][/\ (pc = "loop" /\ iter'.detected =>
           /\ iter'.goto = 1
           /\ NothingProcessed
           /\ (iter'.home \in {"home", "none"} => LoopLeft)
           /\ (iter'.home = "detail" => pc' = "iter_end"))
     /\ (pc = "closing" => pc' = "done" /\ iter' = iter /\ page' = page)]_vars

\* a recovery navigation has ended on the landing view and the loop is left
C10_Witness ==
  /\ pc = "closing"
  /\ iter.detected
  /\ iter.goto = 1
  /\ iter.home = "home"

\* the loop has been left at the boundary test
ExitedAtBoundary ==
  /\ pc \in {"closing", "done"}
  /\ ~iter.detected
  /\ AtBoundary(page.url, latestPhoto)

(* C11: in front of a well-behaved UI (the click opens the adjacent photo,     *)
(* no failed advance, no redirects, the latest photo ahead of the start) the   *)
(* loop                                                                        *)
(* eventually finds clean(currentUrl) = clean(latestPhoto) and exits, and the  *)
(* iterations that process an item never outnumber the photos from the start   *)
(* up to the boundary.                                                         *)
C11_CalmWalkReachesBoundary ==
  /\ <>ExitedAtBoundary
  /\ [](Total - 1 <= latestPhoto.id - startLink.id \/ pc = "start")

\* the walk of the whole library has ended at the boundary and the browser is closed
C11_Witness ==
  /\ pc = "done"
  /\ ExitedAtBoundary
  /\ Total = NumItems
  /\ counts.archived >= 1
  /\ counts.skipped >= 1

\* r is L without its first account segment, or L itself if it has none
FirstSegmentRemoved(L, r) ==
  IF Len(L.acct) = 0
  THEN r = L
  ELSE /\ Len(r.acct) = Len(L.acct) - 1
       /\ \A k \in 1..Len(r.acct) : r.acct[k] = L.acct[k + 1]
       /\ [r EXCEPT !.acct = <<>>] = [L EXCEPT !.acct = <<>>]

(* C12 as stated: for every locator, with zero, one or several account         *)
(* segments, clean removes exactly one segment when one is present, and        *)
(* clean(clean(L)) = clean(L).                                                 *)
C12_CleanRemovesOneAndIsIdempotent ==
  /\ (pc = "cleaned" => FirstSegmentRemoved(startLink, currentUrl))
  /\ (pc = "recleaned" => currentUrl = clean(startLink))

(* C12 amended: for every locator, clean removes exactly one account segment   *)
(* (the first) when one is present and changes nothing otherwise;              *)
(* clean(clean(L)) = clean(L) holds for the locators with at most one          *)
(* segment, and for a locator with two or more segments the second             *)
(* application removes a further segment.                                      *)
C12_CleanRemovesOneIdempotentUpToOne ==
  /\ (pc = "cleaned" => FirstSegmentRemoved(startLink, currentUrl))
  /\ (pc = "recleaned" /\ Len(startLink.acct) <= 1 => currentUrl = clean(startLink))
  /\ (pc = "recleaned" /\ Len(startLink.acct) >= 2
        => /\ currentUrl # clean(startLink)
           /\ FirstSegmentRemoved(clean(startLink), currentUrl))

\* a locator with one account segment has been cleaned twice
C12_Witness ==
  /\ pc = "recleaned"
  /\ Len(startLink.acct) = 1
  /\ currentUrl.acct = <<>>
  /\ currentUrl = clean(startLink)

\* the process has ended: main returned, or an error left it
ProcessEnded == pc \in {"done", "crashed"}

(* C13: on every exit path after the browser session has been opened (the      *)
(* boundary, a failed recovery, an uncaught error) the browser is closed       *)
(* before the process ends.                                                    *)
C13_BrowserClosedOnEveryExit ==
  ProcessEnded /\ browser # "none" => browser = "closed"

(* C14: if .lastdone is missing or empty at startup, reading it fails and the  *)
(* process aborts: no browser is launched, no page is opened, no item is       *)
(* processed, and nothing happens afterwards.                                  *)
C14_UnreadableCheckpointAborts ==
  [][/\ (pc = "start" /\ lastdone \in {MissingFile, EmptyText}
          => /\ pc' = "aborted"
             /\ browser' = "none"
             /\ page' = page
             /\ counts' = counts
             /\ keys' = keys
             /\ lastdone' = lastdone)
     /\ (pc = "aborted" => FALSE)]_vars

\* a run that found .lastdone empty has aborted
C14_Witness ==
  /\ pc = "aborted"
  /\ lastdone = EmptyText
  /\ browser = "none"
  /\ Total = 0

(* C15: a checkpoint write on a page whose URL does not start with the         *)
(* library prefix leaves .lastdone unchanged, and every value .lastdone takes  *)
(* during a run starts with the library prefix.                                *)
C15_ForeignUrlIsNotWritten ==
  [][/\ (AtCheckpointStep /\ page.url.host # PhotosHost => lastdone' = lastdone)
     /\ (lastdone' # lastdone => lastdone'.host = PhotosHost)]_vars

\* the checkpoint step of a non-archived item has run on a foreign page
C15_Witness ==
  /\ pc = "nav_normal"
  /\ result \in {"skipped", "timeout"}
  /\ page.url = Foreign
  /\ lastdone.host = PhotosHost

AdvanceStep == pc \in {"nav_normal", "nav_arch"}

\* C17: on the archived advance path, when nothing raised, ArrowLeft is pressed
\* if and only if the 5 click-and-wait attempts were used up without reaching
\* a photo that is new; no press is made when one of the attempts 1 to 5 left
\* the retry loop on a new photo
C17_PressOnlyAfterFiveFailures ==
  [][pc = "nav_arch" /\ ~iter'.threw
       => (iter'.ArrowLeft > 0 <=> iter'.exhausted /\ iter'.land # "new")]_vars

\* C18 as stated: an advance in which the click raised or a URL wait timed out,
\* on either path, makes exactly one ArrowLeft press
C18_FailedAdvanceOnePress ==
  [][AdvanceStep /\ (iter'.threw \/ iter'.timedOut) => iter'.ArrowLeft = 1]_vars

\* C18 amended: on the non-archived path every timed-out URL wait reaches the
\* catch, and the catch presses ArrowLeft once (a second press is the one of
\* the repeat test that raised); on the archived path a click that raises
\* reaches the catch, which presses once (twice if the press after the fifth
\* attempt raised), while a timed-out URL wait is retried and causes a press
\* only through the fifth attempt being used up
C18_FailedAdvancePresses ==
  [][
    /\ (pc = "nav_normal" /\ iter'.timedOut) => iter'.threw
    /\ (pc = "nav_normal" /\ iter'.threw)
          => iter'.ArrowLeft = (IF iter'.land = "visited" THEN 2 ELSE 1)
    /\ (pc = "nav_arch" /\ iter'.threw /\ ~iter'.exhausted) => iter'.ArrowLeft = 1
    /\ (pc = "nav_arch" /\ iter'.threw /\ iter'.exhausted) => iter'.ArrowLeft \in {1, 2}
    /\ (pc = "nav_arch" /\ iter'.timedOut /\ ~iter'.threw)
          => iter'.ArrowLeft = (IF iter'.exhausted THEN 1 ELSE 0)
  ]_vars

\* a URL wait of the archived path timed out, a later attempt reached a new
\* photo, and the iteration ended without any ArrowLeft press
C18_Witness ==
  /\ pc = "iter_end"
  /\ iter.timedOut
  /\ ~iter.threw
  /\ ~iter.exhausted
  /\ iter.land = "new"
  /\ iter.ArrowLeft = 0

\* C19: whatever fails during the advance of an iteration, the loop goes on
\* to its next iteration
C19_FailedAdvanceNeverEndsRun ==
  [][AdvanceStep => pc' = "iter_end"]_vars

\* C20: every archivePhoto call but the first of the run is made after an
\* advance or a recovery navigation was attempted since the call before it
C20_AdvanceBetweenInvocations ==
  [][ProcessingStep /\ Total > 0 => advanced]_vars

\* C21: when an iteration starts on a page that the home-page check does not
\* take for the landing view and whose cleaned address is the cleaned boundary,
\* the loop is left in that step: no archivePhoto call, no checkpoint write, no
\* click, key press or goto, and the counters are drawn; the boundary is the
\* value that startup computed and no later step changes it
C21_BoundaryExitIsClean ==
  [][
    /\ (pc = "loop" /\ TRUE \notin HomePageVerdicts(page)
          /\ clean(page.url) = clean(latestPhoto))
         => /\ pc' = "closing"
            /\ shown' = counts
            /\ UNCHANGED <<lastdone, page, counts, processedUrls, consecutiveRepeats,
                           obs, keys, iter, archivedItems, advanced>>
    /\ (pc # "start") => (latestPhoto' = latestPhoto)
  ]_vars

\* the loop was left at the boundary, reached under an address whose account
\* segment the boundary value does not have, after two items were processed
C21_Witness ==
  /\ pc = "closing"
  /\ ~iter.detected
  /\ clean(page.url) = clean(latestPhoto)
  /\ page.url # latestPhoto
  /\ shown = counts
  /\ Total >= 2
  /\ lastdone # startLink

\* C22: no step removes an address from processedUrls, and whenever an
\* iteration has processed an item, the cleaned address at which the iteration
\* found that item is in processedUrls from the checkpoint step on, so before
\* the click or the key press of its advance, whatever archivePhoto returned
C22_VisitedGrowsAndHoldsItem ==
  /\ [][processedUrls \subseteq processedUrls']_vars
  /\ [](pc \in {"save", "nav_normal", "nav_arch"} => clean(currentUrl) \in processedUrls)

\* the advance after an archived item is about to start from a page that the
\* archive action has moved to an address not processed so far, with the
\* address of the archived item in the set
C22_Witness ==
  /\ pc = "nav_arch"
  /\ clean(currentUrl) \in processedUrls
  /\ clean(page.url) \notin processedUrls
  /\ Cardinality(processedUrls) >= 2

\* C23: the steps of an iteration come in the order home-page check, boundary
\* test, archivePhoto, checkpoint write (not after 'archived'), advance: an
\* item is processed only where the home-page check can return false and the
\* boundary test fails; an iteration whose home-page check returned true
\* neither processes an item nor writes the checkpoint; the checkpoint changes
\* only in the checkpoint step and not after 'archived'; the advance starts
\* from the checkpoint step and writes nothing
C23_IterationStepOrder ==
  [][
    /\ (pc = "loop" /\ pc' = "save")
         => (FALSE \in HomePageVerdicts(page) /\ clean(page.url) # clean(latestPhoto))
    /\ iter'.detected
         => (UNCHANGED <<counts, obs, keys, lastdone, processedUrls>>
             /\ pc' \in {"iter_end", "closing", "done"})
    /\ (lastdone' # lastdone)
         => (pc \in {"first_save", "save"} /\ result # "archived")
    /\ (pc' \in {"nav_normal", "nav_arch"}) => (pc = "save")
    /\ AdvanceStep => (lastdone' = lastdone /\ pc' \in {"iter_end", "crashed"})
  ]_vars

\* an iteration has processed a second item, the checkpoint has moved off the
\* start link, and the advance of the iteration has landed on a new photo
C23_Witness ==
  /\ pc = "iter_end"
  /\ ~iter.detected
  /\ iter.land = "new"
  /\ Total >= 2
  /\ lastdone # startLink

\* C24: once archivePhoto has returned, KeyI was pressed exactly once if the
\* drawer probe found the drawer not shown and not at all if it found it
\* shown; if the probe raised, the result is 'timeout', no key was pressed
\* (neither KeyI nor the KeyA of the archive shortcut) and nothing was archived
C24_DrawerToggle ==
  AtCheckpointStep =>
    /\ obs.drawer = "hidden" => keys.KeyI = 1
    /\ obs.drawer = "visible" => keys.KeyI = 0
    /\ obs.drawer = "throw" => (result = "timeout" /\ keys = NoKeys)

\* an archivePhoto call of the loop has returned 'timeout' because the drawer
\* probe raised
C24_Witness ==
  /\ pc = "save"
  /\ obs.drawer = "throw"
  /\ result = "timeout"
  /\ keys = NoKeys

\* the iteration is over: the loop is at its next iteration or has been left
IterationOver == pc \in {"iter_end", "closing", "done"}

\* C25: every iteration that has started reaches the next iteration or a loop
\* exit, also when one interaction with the page never responds
C25_EveryIterationCompletes == (pc = "loop") ~> IterationOver

\* C26: every value written to the checkpoint is the address of a photo's
\* detail view, never the address of the landing view
C26_CheckpointIsDetailView ==
  [][lastdone' # lastdone => lastdone'.path = "photo"]_vars

\* C27: once archivePhoto has returned, its result is 'archived' if and only
\* if it called page.keyboard.press('KeyA')
C27_ArchivedIffKeyPressed ==
  AtCheckpointStep => (result = "archived" <=> keys.KeyA > 0)

\* C28: every archivePhoto call (the one before the loop and those of the
\* loop) adds one to the counter of the result it returned and leaves the two
\* others as they are, no other step changes a counter, and the counters are
\* zero until the first call: their sum is the number of calls made
C28_CountersFollowOutcomes ==
  /\ [](pc \in {"start", "opened", "first"} => Total = 0)
  /\ [][IF ProcessingStep
        THEN counts' = [counts EXCEPT ![result'] = @ + 1]
        ELSE counts' = counts]_vars

\* three calls have returned, one with each result
C28_Witness ==
  /\ pc = "save"
  /\ counts = [archived |-> 1, skipped |-> 1, timeout |-> 1]

\* C29 as stated: consecutiveRepeats is 0 or 1 whenever an iteration starts,
\* the archived advance never increments it, and an advance that ends in the
\* catch leaves it as it was
C29_RepeatCounterAtMostOne ==
  /\ [](pc = "loop" => consecutiveRepeats \in {0, 1})
  /\ [][
       /\ (pc = "nav_arch") => (consecutiveRepeats' \in {0, consecutiveRepeats})
       /\ (AdvanceStep /\ iter'.threw) => (consecutiveRepeats' = consecutiveRepeats)
     ]_vars

\* C29 amended: only the advance changes consecutiveRepeats; the archived
\* advance leaves it or resets it to 0 and the other advance leaves it, resets
\* it or adds one; it goes from 1 to 2 or beyond across iterations only when
\* the ArrowLeft press of the repeat test raised before the reset (the catch
\* then made the second press); an advance that ends in the catch leaves it
\* as it was unless the call that raised was that press, or the press after a
\* fifth attempt of the archived advance that had reset it
C29_RepeatCounterSteps ==
  [][
    /\ (~AdvanceStep) => (consecutiveRepeats' = consecutiveRepeats)
    /\ (pc = "nav_arch") => (consecutiveRepeats' \in {0, consecutiveRepeats})
    /\ (pc = "nav_normal")
         => (consecutiveRepeats' \in {0, consecutiveRepeats, consecutiveRepeats + 1})
    /\ (AdvanceStep /\ consecutiveRepeats' >= RepeatLimit
          /\ consecutiveRepeats' > consecutiveRepeats)
         => (pc = "nav_normal" /\ iter'.threw /\ iter'.land = "visited"
             /\ iter'.ArrowLeft = 2)
    /\ (pc = "nav_normal" /\ iter'.threw /\ iter'.land # "visited")
         => (consecutiveRepeats' = consecutiveRepeats)
    /\ (pc = "nav_arch" /\ iter'.threw /\ ~iter'.exhausted)
         => (consecutiveRepeats' = consecutiveRepeats)
  ]_vars

\* an iteration ends with the counter at 2: the press of the repeat test
\* raised and the press of the catch went through
C29_Witness ==
  /\ pc = "iter_end"
  /\ consecutiveRepeats = RepeatLimit
  /\ iter.threw
  /\ iter.land = "visited"
  /\ iter.ArrowLeft = 2

====
